---- MODULE Spec2Model ----
(***************************************************************************)
(* A model of postprocess/check_for_full_data.py of NA-CORDEX-CMIP6: the   *)
(* verification of a simulation's raw output tree (chunk directories, the  *)
(* filename patterns of each, 365/366 daily files per pattern and year),   *)
(* the invocation of the post-processing script and the plot gate.         *)
(*                                                                         *)
(* The filesystem is the environment.  A run reads it and never writes the *)
(* raw tree, so the tree is chosen in Init and stays as it is.  File names *)
(* are kept as the parts the code's regular expressions take them apart    *)
(* into; two names are equal as text exactly when their parts are equal.   *)
(***************************************************************************)
EXTENDS Integers, Sequences, FiniteSets, TLC

VARIABLES
    baseDir,                  \* the entries of BASEDIR (a set of names)
    tree,                     \* chunk directory name -> what the directory holds
    pc,                       \* where the run is
    exit_msg,                 \* the message of sys.exit, the exception, or ""
    complete_chunk_dirs,      \* check_dirs_for_data: the resolved directories
    dir_of_unique_filenames,  \* check_dirs_for_data: directory -> list of patterns
    k,                        \* check_dirs_for_data: index of the key being checked
    all_files,                \* check_dirs_for_data: the report, directory -> years
    missing_files,            \* check_for_all_files: the files reported missing
    all_years,                \* __main__: the flattened years invoke_postprocessing returned
    invoked,                  \* the argument lists the post-processing script was run with
    returncodes,              \* the exit status of each of these runs
    printed,                  \* the lines invoke_postprocessing has printed
    plotDir,                  \* the listing of PLOT_OUTPUT_DIR, once generate_plots has read it
    plot_calls,               \* the calls of plot.make_time_series_plots
    probe                     \* the call of a pure function, for the claims about one

vars == <<baseDir, tree, pc, exit_msg, complete_chunk_dirs, dir_of_unique_filenames,
          k, all_files, missing_files, all_years, invoked, returncodes, printed,
          plotDir, plot_calls, probe>>

\* The raw tree, the state of check_dirs_for_data, and the state of the steps
\* that follow it.
treeVars == <<baseDir, tree>>
checkVars == <<complete_chunk_dirs, dir_of_unique_filenames, k, all_files, missing_files>>
stepVars == <<all_years, invoked, returncodes, printed, plotDir, plot_calls>>

-----------------------------------------------------------------------------
(* The configuration ("Set the following") and the constant values.        *)

TOTAL_YEARS_IN_SIMULATION == 40
NUMBER_OF_YEARS_WITHIN_SIMULATION == 13
SEVENTH_YEAR_OF_DECADE == TRUE
YEAR_INCREMENT == 10
ORDINAL_START_YEAR == 2

EXPECTED_NUM_FILES == 365
EXPECTED_NUM_FILES_LEAP_YEAR == 366
EXPECTED_NUM_FILENAME_PATTERNS == 6

DAYS_IN_MONTH ==
    [key \in {"01", "02", "02_leap", "03", "04", "05", "06", "07", "08", "09",
              "10", "11", "12"} |->
        CASE key = "01" -> 30
          [] key = "02" -> 28
          [] key = "02_leap" -> 29
          [] key = "03" -> 31
          [] key = "04" -> 30
          [] key = "05" -> 31
          [] key = "06" -> 30
          [] key = "07" -> 31
          [] key = "08" -> 31
          [] key = "09" -> 30
          [] key = "10" -> 31
          [] key = "11" -> 30
          [] OTHER -> 31]

\* str(n).zfill(2)
zfill2(n) == IF n < 10 THEN "0" \o ToString(n) ELSE ToString(n)

-----------------------------------------------------------------------------
(* is_leap_year, as the nested tests of the code.                          *)

\* A faulty variant: the exception of the years divisible by 400 is left out.
is_leap_year_no400(year) == (year % 4 = 0) /\ (year % 100 # 0)

is_leap_year(year) ==
    IF year % 4 = 0
    THEN IF year % 100 = 0
         THEN IF year % 400 = 0 THEN TRUE ELSE FALSE
         ELSE TRUE
    ELSE FALSE

-----------------------------------------------------------------------------
(* The raw output tree.  The six output streams are those the comments of  *)
(* check_dirs_for_data list; a chunk directory is described by how it      *)
(* differs from a complete one, and Listdir expands the description into   *)
(* the file names the directory holds.                                     *)

KnownStreams ==
    <<"wrfout_d01_", "wrfout_hour_d01_", "wrfout_pres_d01_", "wrfout_zlev_d01_",
      "wrfout_afwa_d01_", "wrfrst_d01_">>

\* A seventh stream, which no complete directory holds.
ExtraStream == "auxhist_d01_"

AllStreams == KnownStreams \o <<ExtraStream>>

SeqRange(s) == {s[i] : i \in 1..Len(s)}

\* <prefix><YYYY>-<MM>-<DD>_<hh:mm:ss>
Stamp(p, y, m, d, hms) == [prefix |-> p, date |-> <<y, m, d>>, hms |-> hms]

\* A file of the directory whose name carries no date.
NamelistFile == [prefix |-> "namelist.input", date |-> <<>>, hms |-> ""]

\* The calendar the simulation writes its daily files by.
CalendarLeap(y) == (y % 4 = 0) /\ ~((y % 100 = 0) /\ ~(y % 400 = 0))

CalendarDaysInMonth(y, m) ==
    IF m = 2 THEN (IF CalendarLeap(y) THEN 29 ELSE 28)
    ELSE IF m \in {4, 6, 9, 11} THEN 30 ELSE 31

CalendarDays(y) ==
    {md \in (1..12) \X (1..31) : md[2] <= CalendarDaysInMonth(y, md[1])}

\* One file per day of year y, at 00:00:00.
FullYear(p, y) == {Stamp(p, y, md[1], md[2], "00:00:00") : md \in CalendarDays(y)}

\* The names of the entries of BASEDIR: the text before the year, the four
\* digits (0: the name holds none) and the text after them.
ChunkName(y) == [lead |-> "", year |-> y, tail |-> "_chunk"]

\* The start year of the first chunk of the simulation.
FirstChunkYear == 1977

ReadmeEntry == [lead |-> "README", year |-> 0, tail |-> ""]

OldCopyEntry == [lead |-> "old_", year |-> FirstChunkYear + 10, tail |-> "_chunk"]

\* The entries a base directory may hold, in the order list.sort() gives
\* them (digits before upper case before lower case letters): the chunk
\* directories of the simulation, one chunk directory off the sequence, a
\* file, and a copy of a chunk directory.
EntryUniverse ==
    <<ChunkName(FirstChunkYear),
      ChunkName(FirstChunkYear + 5),
      ChunkName(FirstChunkYear + 10),
      ChunkName(FirstChunkYear + 20),
      ChunkName(FirstChunkYear + 30),
      ChunkName(FirstChunkYear + 40),
      ReadmeEntry,
      OldCopyEntry>>

\* The years the files of a chunk directory may carry.  A chunk that
\* starts in year cy writes files for the start year, twelve more full
\* years, and 1 January of the year after them; the directory may also
\* hold a file of the year before the start year.
ChunkFileYears(cy) == (cy - 1)..(cy + NUMBER_OF_YEARS_WITHIN_SIMULATION)

CompleteCell(cy, p, y) ==
    IF p \notin SeqRange(KnownStreams) THEN {}
    ELSE IF y \in cy..(cy + NUMBER_OF_YEARS_WITHIN_SIMULATION - 1) THEN FullYear(p, y)
    ELSE IF y = cy + NUMBER_OF_YEARS_WITHIN_SIMULATION
         THEN {Stamp(p, y, 1, 1, "00:00:00")}
    ELSE {}

Complete == [kind |-> "complete", prefix |-> "", year |-> 0, month |-> 0, day |-> 0]

\* The files of prefix p and year y in the chunk directory that starts in
\* year cy and is described by c.
CellFiles(cy, c, p, y) ==
    LET base == CompleteCell(cy, p, y)
        here == p = c.prefix /\ y = c.year
    IN  CASE c.kind = "complete" -> base
          [] c.kind = "lack_day" ->
                IF here THEN base \ {Stamp(p, y, c.month, c.day, "00:00:00")} ELSE base
          [] c.kind = "extra_file" ->
                IF here THEN base \cup {Stamp(p, y, c.month, c.day, "06:00:00")} ELSE base
          [] c.kind = "no_cell" -> IF here THEN {} ELSE base
          [] c.kind = "no_year" -> IF y = c.year THEN {} ELSE base
          [] c.kind = "no_stream" -> IF p = c.prefix THEN {} ELSE base
          [] c.kind = "extra_stream" ->
                IF p = ExtraStream /\ y \in cy..(cy + NUMBER_OF_YEARS_WITHIN_SIMULATION - 1)
                THEN FullYear(p, y) ELSE base
          [] c.kind = "first_year_only" -> IF y = cy THEN base ELSE {}
          [] c.kind = "late_start" -> IF y < c.year THEN {} ELSE base
          [] c.kind = "lack_day_all" ->
                IF y = c.year THEN base \ {Stamp(p, y, c.month, c.day, "00:00:00")} ELSE base
          [] c.kind = "early_file" ->
                IF here THEN base \cup {Stamp(p, y, c.month, c.day, "00:00:00")} ELSE base
          [] OTHER -> {}

\* The cells of a chunk directory: a stream and a year.
CellIndex(cy) == (1..Len(AllStreams)) \X ChunkFileYears(cy)

\* os.listdir(cur_dir), cell by cell: the files of one stream and one year,
\* and with the first cell the file that carries no date.
ListdirCell(dir, iy) ==
    CellFiles(dir.year, tree[dir], AllStreams[iy[1]], iy[2])
    \cup (IF iy = <<1, dir.year>> THEN {NamelistFile} ELSE {})

-----------------------------------------------------------------------------
(* check_for_all_chunk_dirs                                                *)

\* The texts after the four digits that begin with _chunk.
ChunkTails == {"_chunk", "_chunk.bak"}

\* The chunk-name pattern in either mode: re.search(r'(\d{4})_chunk', dir)
\* finds four digits followed by _chunk anywhere in the name, and
\* re.match(r'(\d{3}7)_chunk', dir) only at its start, the fourth digit a 7.
\* match.group(1) as a number, or 0 when there is no match.
chunk_name_match(seventh_year_of_decade, dir) ==
    IF seventh_year_of_decade
    THEN IF dir.year # 0 /\ dir.tail \in ChunkTails THEN dir.year ELSE 0
    ELSE IF dir.lead = "" /\ dir.year % 10 = 7 /\ dir.tail \in ChunkTails
         THEN dir.year ELSE 0

\* The pattern of the mode the source is set to.
ChunkNameMatch(dir) == chunk_name_match(SEVENTH_YEAR_OF_DECADE, dir)

\* os.listdir(BASEDIR): the entries in an order of the file system's
\* choosing.  Up to three orders stand for it in a run: by name, by name
\* backwards, and by name from the second entry on with the first one last.
MaxListdirOrders == 2

ListdirOrderNames == <<"by_name", "backwards", "rotated">>

ListdirOrders ==
    {ListdirOrderNames[i] :
        i \in 1..(IF MaxListdirOrders < 3 THEN MaxListdirOrders ELSE 3)}

Listdir(entries, ord) ==
    LET Found(e) == e \in entries
        by_name == SelectSeq(EntryUniverse, Found)
        n == Len(by_name)
    IN  CASE ord = "by_name" -> by_name
          [] ord = "backwards" -> [i \in 1..n |-> by_name[n + 1 - i]]
          [] OTHER -> [i \in 1..n |-> by_name[(i % n) + 1]]

\* The order of str on the names: the place of the name in EntryUniverse.
EntryRank(e) == CHOOSE i \in 1..Len(EntryUniverse) : EntryUniverse[i] = e

\* A faulty variant: the listing is left in the order it came in.
SortNames_unsorted(chunk_dirs_found) == chunk_dirs_found

\* chunk_dirs_found.sort()
SortNames(chunk_dirs_found) ==
    [i \in 1..Len(chunk_dirs_found) |->
        CHOOSE e \in SeqRange(chunk_dirs_found) :
            Cardinality({x \in SeqRange(chunk_dirs_found) :
                            EntryRank(x) < EntryRank(e)}) = i - 1]

\* range(first_year, expected_last_year + 1, YEAR_INCREMENT)
ExpectedChunkYears(first_year) ==
    {y \in first_year..(first_year + TOTAL_YEARS_IN_SIMULATION) :
        (y - first_year) % YEAR_INCREMENT = 0}

\* A faulty variant: an entry whose name does not match is skipped.
check_for_all_chunk_dirs_skips(listing) ==
    LET Match(d) == ChunkNameMatch(d) # 0
        chunk_dirs_found == SelectSeq(SortNames(listing), Match)
        chunk_years == [i \in 1..Len(chunk_dirs_found) |->
                            ChunkNameMatch(chunk_dirs_found[i])]
    IN  IF chunk_years = <<>>
        THEN [outcome |-> "raise", value |-> <<>>,
              msg |-> "IndexError: list index out of range"]
        ELSE LET first_year == chunk_years[1]
                 expected_years == ExpectedChunkYears(first_year)
                 Unexpected(y) == y \notin expected_years
                 missing_dirs == SelectSeq(chunk_years, Unexpected)
             IN  IF Len(missing_dirs) > 0
                 THEN [outcome |-> "exit", value |-> missing_dirs,
                       msg |-> "Missing the following chunk directories"]
                 ELSE [outcome |-> "return", value |-> chunk_dirs_found, msg |-> ""]

\* What the call ends in: a returned list of paths (os.path.join(BASEDIR,
\* cur_chunk) is written as the entry itself), sys.exit with its message,
\* or the IndexError of chunk_years[0].
check_for_all_chunk_dirs(listing) ==
    LET chunk_dirs_found == SortNames(listing)
        NoMatch(d) == ChunkNameMatch(d) = 0
        chunk_years == [i \in 1..Len(chunk_dirs_found) |->
                            ChunkNameMatch(chunk_dirs_found[i])]
    IN  IF SelectSeq(chunk_dirs_found, NoMatch) # <<>>
        THEN [outcome |-> "exit", value |-> <<>>,
              msg |-> "No directories with YEAR_chunk name were found"]
        ELSE IF chunk_years = <<>>
        THEN [outcome |-> "raise", value |-> <<>>,
              msg |-> "IndexError: list index out of range"]
        ELSE LET first_year == chunk_years[1]
                 expected_years == ExpectedChunkYears(first_year)
                 Unexpected(y) == y \notin expected_years
                 missing_dirs == SelectSeq(chunk_years, Unexpected)
             IN  IF Len(missing_dirs) > 0
                 THEN [outcome |-> "exit", value |-> missing_dirs,
                       msg |-> "Missing the following chunk directories"]
                 ELSE [outcome |-> "return", value |-> chunk_dirs_found, msg |-> ""]

-----------------------------------------------------------------------------
(* check_dirs_for_data: the inventory of filename patterns                 *)

\* re.search(r'(.*\d{4})-\d{1,2}-\d{1,2}_\d{2}:\d{2}:\d{2}.*', cur_file)
DateSuffixMatch(f) == f.date # <<>>

\* result.group(1): the text up to and including the four digits of the year
PatternOf(f) == [prefix |-> f.prefix, year |-> f.date[1]]

\* The loop over all_files = os.listdir(cur_dir), taken cell by cell.
unique_filename_dates(dir) ==
    UNION {{PatternOf(f) : f \in {g \in ListdirCell(dir, iy) : DateSuffixMatch(g)}} :
              iy \in CellIndex(dir.year)}

\* The years any file of the model carries.
FileYearLo == FirstChunkYear
FileYearHi == FirstChunkYear + TOTAL_YEARS_IN_SIMULATION + NUMBER_OF_YEARS_WITHIN_SIMULATION
NumFileYears == FileYearHi - FileYearLo + 1

\* list(unique_filename_dates): a set is listed in the order of its hash
\* table, which differs from run to run.  Up to three orders stand for it:
\* by stream then year, by year then stream, and the first one backwards.
MaxHashOrders == 2

OrderNames == <<"stream_year", "year_stream", "reversed">>

HashOrders == {OrderNames[i] : i \in 1..(IF MaxHashOrders < 3 THEN MaxHashOrders ELSE 3)}

PatternUniverse(ord) ==
    LET n == Len(AllStreams) * NumFileYears
        ByStream(i) == [prefix |-> AllStreams[((i - 1) \div NumFileYears) + 1],
                        year |-> FileYearLo + ((i - 1) % NumFileYears)]
        ByYear(i) == [prefix |-> AllStreams[((i - 1) % Len(AllStreams)) + 1],
                      year |-> FileYearLo + ((i - 1) \div Len(AllStreams))]
    IN  [i \in 1..n |->
            CASE ord = "stream_year" -> ByStream(i)
              [] ord = "year_stream" -> ByYear(i)
              [] OTHER -> ByStream(n + 1 - i)]

ListOfSet(S, ord) ==
    LET In(p) == p \in S IN SelectSeq(PatternUniverse(ord), In)

-----------------------------------------------------------------------------
(* check_for_all_files                                                     *)

RECURSIVE FlattenSeqs(_)
FlattenSeqs(ss) == IF ss = <<>> THEN <<>> ELSE Head(ss) \o FlattenSeqs(Tail(ss))

SeqMin(s) == CHOOSE x \in SeqRange(s) : \A y \in SeqRange(s) : x <= y

\* os.path.join(BASEDIR, chunk_dir, name): chunk_dir is an absolute path, so
\* the join drops BASEDIR; glob.glob returns paths of the same form.
FullPath(chunk_dir, name) == [dir |-> chunk_dir, name |-> name]

\* glob.glob(os.path.join(chunk_dir, cur_file_pattern) + "*"): the entries
\* of the directory whose name starts with the pattern, which are the files
\* of that prefix and year.
Glob(chunk_dir, pattern) ==
    {FullPath(chunk_dir, f) :
        f \in CellFiles(chunk_dir.year, tree[chunk_dir], pattern.prefix, pattern.year)}

\* range(adjusted_first_year, adjusted_last_year)
years_of_interest(first_year) ==
    LET last_year == first_year + NUMBER_OF_YEARS_WITHIN_SIMULATION
        adjusted_last_year == last_year - 1
        start_year_increment == ORDINAL_START_YEAR - 1
        adjusted_first_year == first_year + start_year_increment
    IN  adjusted_first_year..(adjusted_last_year - 1)

\* A faulty variant: more files than expected pass as well.
NumFilesOk_atleast(file_year, num_files) ==
    IF is_leap_year(file_year)
    THEN num_files >= EXPECTED_NUM_FILES_LEAP_YEAR
    ELSE num_files >= EXPECTED_NUM_FILES

\* A faulty variant: 365 files are expected of every year.
NumFilesOk_noleap(file_year, num_files) == num_files = EXPECTED_NUM_FILES

\* The test of num_files in either branch of is_leap_year(file_year).
NumFilesOk(file_year, num_files) ==
    IF is_leap_year(file_year)
    THEN num_files = EXPECTED_NUM_FILES_LEAP_YEAR
    ELSE num_files = EXPECTED_NUM_FILES

\* days_in_month of the loops over m in range(1, 13)
days_in_month(file_year, m) ==
    IF is_leap_year(file_year) /\ m = 2
    THEN DAYS_IN_MONTH["02_leap"]
    ELSE DAYS_IN_MONTH[zfill2(m)]

\* expected_full_file, for m in range(1, 13), d in range(1, days_in_month + 1):
\* cur_file_pattern + '-' + mm + '-' + dd + "_00:00:00"
ExpectedFullFiles(chunk_dir, pattern) ==
    FlattenSeqs([m \in 1..12 |->
        [d \in 1..days_in_month(pattern.year, m) |->
            FullPath(chunk_dir, Stamp(pattern.prefix, pattern.year, m, d, "00:00:00"))]])

\* The files one pattern adds to missing_files.
MissingOfPattern(chunk_dir, pattern) ==
    LET matched_files_found == Glob(chunk_dir, pattern)
        NotFound(f) == f \notin matched_files_found
    IN  SelectSeq(ExpectedFullFiles(chunk_dir, pattern), NotFound)

\* A faulty variant: the check stops at the first pattern whose count is
\* wrong and reports the missing files of that pattern only.
check_for_all_files_stops_early(chunk_dir, dir_fnames) ==
    LET all_file_patterns_for_chunkdir == dir_fnames[chunk_dir]
        all_years_all_files == [i \in 1..Len(all_file_patterns_for_chunkdir) |->
                                    all_file_patterns_for_chunkdir[i].year]
    IN  IF all_years_all_files = <<>>
        THEN [outcome |-> "raise", value |-> <<>>, missing_files |-> <<>>,
              msg |-> "IndexError: list index out of range"]
        ELSE
        LET first_year == SeqMin(all_years_all_files)
            yoi == years_of_interest(first_year)
            Counted(p) == p.year \in yoi
            counted == SelectSeq(all_file_patterns_for_chunkdir, Counted)
            tested == [i \in 1..Len(counted) |->
                          [pattern |-> counted[i],
                           ok |-> NumFilesOk(counted[i].year,
                                             Cardinality(Glob(chunk_dir, counted[i])))]]
            Ok(t) == t.ok
            Bad(t) == ~t.ok
            good == SelectSeq(tested, Ok)
            bad == SelectSeq(tested, Bad)
            valid_years == [i \in 1..Len(good) |-> good[i].pattern.year]
        IN  IF bad # <<>>
            THEN [outcome |-> "exit", value |-> <<>>,
                  missing_files |-> MissingOfPattern(chunk_dir, bad[1].pattern),
                  msg |-> "Exiting due to missing files"]
            ELSE [outcome |-> "return", value |-> valid_years, missing_files |-> <<>>,
                  msg |-> ""]

check_for_all_files(chunk_dir, dir_fnames) ==
    LET all_file_patterns_for_chunkdir == dir_fnames[chunk_dir]
        all_years_all_files == [i \in 1..Len(all_file_patterns_for_chunkdir) |->
                                    all_file_patterns_for_chunkdir[i].year]
    IN  IF all_years_all_files = <<>>
        THEN [outcome |-> "raise", value |-> <<>>, missing_files |-> <<>>,
              msg |-> "IndexError: list index out of range"]
        ELSE
        LET first_year == SeqMin(all_years_all_files)
            yoi == years_of_interest(first_year)
            Counted(p) == p.year \in yoi
            counted == SelectSeq(all_file_patterns_for_chunkdir, Counted)
            \* each counted pattern with the outcome of its test of num_files
            tested == [i \in 1..Len(counted) |->
                          [pattern |-> counted[i],
                           ok |-> NumFilesOk(counted[i].year,
                                             Cardinality(Glob(chunk_dir, counted[i])))]]
            Ok(t) == t.ok
            Bad(t) == ~t.ok
            good == SelectSeq(tested, Ok)
            bad == SelectSeq(tested, Bad)
            valid_years == [i \in 1..Len(good) |-> good[i].pattern.year]
            missing == bad # <<>>
        IN  IF missing
            THEN [outcome |-> "exit", value |-> <<>>,
                  missing_files |->
                      FlattenSeqs([i \in 1..Len(bad) |->
                                      MissingOfPattern(chunk_dir, bad[i].pattern)]),
                  msg |-> "Exiting due to missing files"]
            ELSE [outcome |-> "return", value |-> valid_years, missing_files |-> <<>>,
                  msg |-> ""]

-----------------------------------------------------------------------------
(* invoke_postprocessing                                                   *)

\* all_files.values(), flattened: the values in the order the keys were
\* inserted, which is the order the directories were checked in.
FlattenReport(report, keys) ==
    LET InReport(key) == key \in DOMAIN report
        inserted == SelectSeq(keys, InReport)
    IN  FlattenSeqs([i \in 1..Len(inserted) |-> report[inserted[i]]])

\* arguments = [str(cur_year)]: what follows ['python', POST_PROCESS_SCRIPT]
ArgumentsOf(cur_year) == <<ToString(cur_year)>>

\* The two lines printed before each run of the script: the year, and the
\* text of the call (an f-string without a place holder).
PrintedLines(all_years_flattened) ==
    FlattenSeqs([i \in 1..Len(all_years_flattened) |->
        <<[text |-> "Invoking postprocess script for", year |-> all_years_flattened[i]],
          [text |-> "subprocess.run(['python', POST_PROCESS_SCRIPT]+ arguments, capture_output=True, text=True)",
           year |-> 0]>>])

\* The exit statuses n runs of the script may end with: all zero, or the
\* first or the last run non-zero.
ReturnCodeChoices(n) ==
    {[i \in 1..n |-> IF i = f THEN 1 ELSE 0] : f \in {0, 1, n}}

-----------------------------------------------------------------------------
(* plots_already_exist and the names of the plot files                     *)

\* A filename template is the sequence of its pieces: text, "_", "-" and the
\* place holders; a "_" that precedes a place holder is a piece of its own.
PlaceHolders == {"${YEAR}", "${MONTH}"}

INPUT_FNAME_TEMPLATE ==
    <<"tas_NAM-12_ERA5_evaluation_r1i1p1f1_NCAR_WRF461_v1-r1_hr", "_", "${YEAR}",
      "-", "${MONTH}">>

PLOT_FNAME_TEMPLATE ==
    <<"5day_mean_and_hourly_tas_NAM-12_ERA5_evaluation_r1ip1f1_NCAR_WRF461_v1-r1_hr",
      "_", "${YEAR}">>

RECURSIVE JoinPieces(_)
JoinPieces(ps) == IF ps = <<>> THEN "" ELSE Head(ps) \o JoinPieces(Tail(ps))

SetMax(S) == CHOOSE x \in S : \A y \in S : y <= x

\* re.match(r'(.*)_\$', output_filename_expr): the places of a "_" followed
\* by a "$"; the greedy (.*) takes the last of them.
UnderscoreDollar(expr) ==
    {i \in 1..(Len(expr) - 1) : expr[i] = "_" /\ expr[i + 1] \in PlaceHolders}

\* match.group(1)
partial_expression(expr) ==
    JoinPieces(SubSeq(expr, 1, SetMax(UnderscoreDollar(expr)) - 1))

\* constructed_fname = partial_expression + "_" + str(y) + ".png"
constructed_fname(expr, y) == partial_expression(expr) \o "_" \o ToString(y) \o ".png"

\* os.listdir of a directory: the names it holds, or that it does not exist.
Directory(files) == [exists |-> TRUE, files |-> files]
NoDirectory == [exists |-> FALSE, files |-> {}]

\* A faulty variant: the names found are counted once each, however often a year
\* is listed.
plots_already_exist_distinct(output_filename_expr, years, actual_plot_files) ==
    IF UnderscoreDollar(output_filename_expr) = {}
    THEN [outcome |-> "raise", value |-> FALSE, msg |-> "AttributeError"]
    ELSE IF ~actual_plot_files.exists
    THEN [outcome |-> "raise", value |-> FALSE, msg |-> "FileNotFoundError"]
    ELSE LET expected_files == [i \in 1..Len(years) |->
                                    constructed_fname(output_filename_expr, years[i])]
             num_found == Cardinality(SeqRange(expected_files)
                                          \cap actual_plot_files.files)
         IN  [outcome |-> "return", value |-> (num_found = Len(expected_files)), msg |-> ""]

\* What the call ends in: the returned boolean, the AttributeError of
\* match.group on a template that holds no "_$", or the FileNotFoundError
\* of os.listdir(PLOT_OUTPUT_DIR).
plots_already_exist(output_filename_expr, years, actual_plot_files) ==
    IF UnderscoreDollar(output_filename_expr) = {}
    THEN [outcome |-> "raise", value |-> FALSE, msg |-> "AttributeError"]
    ELSE IF ~actual_plot_files.exists
    THEN [outcome |-> "raise", value |-> FALSE, msg |-> "FileNotFoundError"]
    ELSE LET expected_files == [i \in 1..Len(years) |->
                                    constructed_fname(output_filename_expr, years[i])]
             num_found == Cardinality({i \in 1..Len(expected_files) :
                                          expected_files[i] \in actual_plot_files.files})
         IN  [outcome |-> "return", value |-> (num_found = Len(expected_files)), msg |-> ""]

\* fname.replace('${YEAR}', y).replace('${MONTH}', m)
Substitute(template, y, m) ==
    JoinPieces([i \in 1..Len(template) |->
        IF template[i] = "${YEAR}" THEN y
        ELSE IF template[i] = "${MONTH}" THEN m
        ELSE template[i]])

\* plot.create_output_name: the loops over all_years and all_months keep the
\* last substitution only; plot_name = substituted_year_month + '.png'
create_output_name(template, years, months) ==
    Substitute(template, ToString(years[Len(years)]), months[Len(months)]) \o ".png"

\* zfilled_months = [str(cur).zfill(2) for cur in range(1, 13)]
zfilled_months == [m \in 1..12 |-> zfill2(m)]

\* util.get_dates_by_start_end: every year with every month, in order
all_dates(years, months) ==
    [i \in 1..(Len(years) * Len(months)) |->
        [year |-> ToString(years[((i - 1) \div Len(months)) + 1]),
         month |-> months[((i - 1) % Len(months)) + 1]]]

\* util.get_input_files, from the dates on: the dates whose file exists in
\* PLOT_INPUT_DIR (present: the dates the directory holds a file of).
all_input_files(years, present) ==
    LET Exists(dt) == dt \in present
    IN  SelectSeq(all_dates(years, zfilled_months), Exists)

-----------------------------------------------------------------------------
(* The trees a run may find.                                               *)

FullListing ==
    {ChunkName(y) : y \in ExpectedChunkYears(FirstChunkYear)}

\* A listing holds at most MaxSmallListing entries, or differs from the
\* listing of the whole simulation by at most MaxListingEdits entries.
MaxSmallListing == 1
MaxListingEdits == 1

SymDiff(A, B) == (A \ B) \cup (B \ A)

Listings ==
    {L \in SUBSET SeqRange(EntryUniverse) :
        \/ Cardinality(L) <= MaxSmallListing
        \/ Cardinality(SymDiff(L, FullListing)) <= MaxListingEdits}

ChunkDirsOf(L) == {e \in L : e.tail = "_chunk"}

\* The chunk directory the defects sit in: the second of the simulation.
DefectDir == ChunkName(FirstChunkYear + YEAR_INCREMENT)

\* The stream and the years a defect may sit in: the start year of the
\* chunk, its first two and its last year of interest (the first of them a
\* leap year when the chunk starts in 1987) and the year after the last.
DefectStream == KnownStreams[1]

DefectYears(cy) ==
    {cy, cy + 1, cy + 2,
     cy + NUMBER_OF_YEARS_WITHIN_SIMULATION - 2, cy + NUMBER_OF_YEARS_WITHIN_SIMULATION - 1}

\* The days a single missing file may be of: the first and the last day of
\* a month up to MaxDefectMonth, and 28 February.
MaxDefectMonth == 12

DefectDays(y) ==
    {md \in CalendarDays(y) :
        /\ md[1] <= MaxDefectMonth
        /\ \/ md[2] = 1
           \/ md[2] = CalendarDaysInMonth(y, md[1])
           \/ md = <<2, 28>>}

Defect(kd, p, y, m, d) == [kind |-> kd, prefix |-> p, year |-> y, month |-> m, day |-> d]

CoarseDefects(cy) ==
    {Defect("no_cell", DefectStream, y, 0, 0) : y \in DefectYears(cy)}
    \cup {Defect("no_year", "", y, 0, 0) : y \in DefectYears(cy)}
    \cup {Defect("extra_file", DefectStream, y, 1, 1) : y \in DefectYears(cy)}
    \cup {Defect("no_stream", DefectStream, 0, 0, 0),
          Defect("extra_stream", "", 0, 0, 0),
          Defect("first_year_only", "", 0, 0, 0),
          Defect("empty", "", 0, 0, 0),
          Defect("late_start", "", cy + ORDINAL_START_YEAR, 0, 0),
          Defect("lack_day_all", "", cy + 1, 3, 31),
          Defect("lack_day_all", "", cy + 2, 1, 31),
          Defect("early_file", DefectStream, cy - 1, 12, 31)}

FineDefects(cy) ==
    UNION {{Defect("lack_day", DefectStream, y, md[1], md[2]) : md \in DefectDays(y)} :
           y \in {cy + 1, cy + 2}}

\* The defects tried inside the listing of the whole simulation.
KeyDefects(cy) ==
    {Defect("no_cell", DefectStream, cy + 1, 0, 0),
     Defect("no_stream", DefectStream, 0, 0, 0),
     Defect("first_year_only", "", 0, 0, 0),
     Defect("lack_day", DefectStream, cy + 2, 1, 31),
     Defect("lack_day", DefectStream, cy + 1, 2, 29)}

\* A tree: a listing whose chunk directories are all complete; the whole
\* simulation with a defect in one directory; that directory alone, with
\* any defect.
Scenarios ==
    {[listing |-> L, dir |-> ReadmeEntry, defect |-> Complete] : L \in Listings}
    \cup {[listing |-> FullListing, dir |-> DefectDir, defect |-> c] :
            c \in KeyDefects(DefectDir.year)}
    \cup {[listing |-> {DefectDir}, dir |-> DefectDir, defect |-> c] :
            c \in CoarseDefects(DefectDir.year) \cup FineDefects(DefectDir.year)}

TreeOf(sc) ==
    [d \in ChunkDirsOf(sc.listing) |-> IF d = sc.dir THEN sc.defect ELSE Complete]

NoProbe == [fn |-> "none"]

Init ==
    /\ \E sc \in Scenarios :
          /\ baseDir = sc.listing
          /\ tree = TreeOf(sc)
    /\ pc = "resolve"
    /\ exit_msg = ""
    /\ complete_chunk_dirs = <<>>
    /\ dir_of_unique_filenames = <<>>
    /\ k = 0
    /\ all_files = <<>>
    /\ missing_files = <<>>
    /\ all_years = <<>>
    /\ invoked = <<>>
    /\ returncodes = <<>>
    /\ printed = <<>>
    /\ plotDir = NoDirectory
    /\ plot_calls = <<>>
    /\ probe = NoProbe

-----------------------------------------------------------------------------
(* check_dirs_for_data, in three steps: the chunk directories are          *)
(* resolved, the patterns of every directory are inventoried, and the      *)
(* directories are checked one key at a time.                              *)

Resolve ==
    /\ pc = "resolve"
    /\ \E ord \in ListdirOrders :
       LET r == check_for_all_chunk_dirs(Listdir(baseDir, ord))
       IN  /\ pc' = IF r.outcome = "return" THEN "inventory" ELSE r.outcome
           /\ exit_msg' = r.msg
           /\ complete_chunk_dirs' = IF r.outcome = "return" THEN r.value ELSE <<>>
    /\ UNCHANGED <<treeVars, dir_of_unique_filenames, k, all_files, missing_files,
                   stepVars, probe>>

Inventory ==
    /\ pc = "inventory"
    /\ LET found == [d \in SeqRange(complete_chunk_dirs) |-> unique_filename_dates(d)]
       IN  \E ord \in HashOrders :
              dir_of_unique_filenames' =
                  [d \in SeqRange(complete_chunk_dirs) |-> ListOfSet(found[d], ord)]
    /\ k' = 1
    /\ pc' = "check"
    /\ UNCHANGED <<treeVars, exit_msg, complete_chunk_dirs, all_files, missing_files,
                   stepVars, probe>>

\* {**all_files, **all_files_present}
DictMerge(a, b) ==
    [x \in (DOMAIN a) \cup (DOMAIN b) |-> IF x \in DOMAIN b THEN b[x] ELSE a[x]]

\* A faulty variant: a directory that fails its check is left out of the report and
\* the loop goes on.
CheckKey_goes_on ==
    /\ pc = "check"
    /\ LET key == complete_chunk_dirs[k]
           r == check_for_all_files(key, dir_of_unique_filenames)
       IN  /\ all_files' = IF r.outcome = "return"
                           THEN DictMerge(all_files, [x \in {key} |-> r.value])
                           ELSE all_files
           /\ k' = k + 1
           /\ pc' = IF k = Len(complete_chunk_dirs) THEN "main" ELSE "check"
           /\ UNCHANGED <<exit_msg, missing_files>>
    /\ UNCHANGED <<treeVars, complete_chunk_dirs, dir_of_unique_filenames,
                   stepVars, probe>>

\* One pass of "for k in keys": the keys are the resolved directories, in
\* the order they were inserted.
CheckKey ==
    /\ pc = "check"
    /\ LET key == complete_chunk_dirs[k]
       IN  IF Len(dir_of_unique_filenames[key]) = EXPECTED_NUM_FILENAME_PATTERNS
           THEN /\ pc' = "exit"
                /\ exit_msg' = "Insufficient number of filename patterns."
                /\ UNCHANGED <<k, all_files, missing_files>>
           ELSE LET r == check_for_all_files(key, dir_of_unique_filenames)
                IN  IF r.outcome = "return"
                    THEN /\ all_files' = DictMerge(all_files, [x \in {key} |-> r.value])
                         /\ k' = k + 1
                         /\ pc' = IF k = Len(complete_chunk_dirs) THEN "main" ELSE "check"
                         /\ UNCHANGED <<exit_msg, missing_files>>
                    ELSE /\ pc' = r.outcome
                         /\ exit_msg' = r.msg
                         /\ missing_files' = r.missing_files
                         /\ UNCHANGED <<k, all_files>>
    /\ UNCHANGED <<treeVars, complete_chunk_dirs, dir_of_unique_filenames,
                   stepVars, probe>>

-----------------------------------------------------------------------------
(* __main__ after check_dirs_for_data has returned                         *)

\* if bool(all_files): invoke_postprocessing(all_files).  The two scripts
\* are looked for first; CMORIZE_SCRIPT and POST_PROCESS_SCRIPT are set to
\* paths of one directory, so the test of their dirname never exits.
InvokePostprocessing ==
    /\ pc = "main"
    /\ IF DOMAIN all_files = {}
       THEN /\ pc' = "done"
            /\ UNCHANGED <<exit_msg, all_years, invoked, returncodes, printed>>
       ELSE \E cmorize_exists \in BOOLEAN, script_exists \in BOOLEAN :
              IF ~cmorize_exists
              THEN /\ pc' = "exit"
                   /\ exit_msg' = "cmorize.compress.sh script not found"
                   /\ UNCHANGED <<all_years, invoked, returncodes, printed>>
              ELSE IF ~script_exists
              THEN /\ pc' = "exit"
                   /\ exit_msg' = "postprocess.core.variables.py not found"
                   /\ UNCHANGED <<all_years, invoked, returncodes, printed>>
              ELSE LET all_years_flattened == FlattenReport(all_files, complete_chunk_dirs)
                   IN  /\ invoked' = [i \in 1..Len(all_years_flattened) |->
                                         ArgumentsOf(all_years_flattened[i])]
                       /\ returncodes' \in ReturnCodeChoices(Len(all_years_flattened))
                       /\ printed' = PrintedLines(all_years_flattened)
                       /\ all_years' = all_years_flattened
                       /\ pc' = "plots"
                       /\ UNCHANGED exit_msg
    /\ UNCHANGED <<treeVars, checkVars, plotDir, plot_calls, probe>>

\* What PLOT_INPUT_DIR may hold: nothing, a file per year and month, all of
\* them but the first, or a file of another name only.
OtherInputFile == [year |-> "", month |-> ""]

InputDirChoices(years) ==
    LET dates == all_dates(years, zfilled_months)
    IN  {{}, SeqRange(dates), {OtherInputFile}}
        \cup (IF dates = <<>> THEN {} ELSE {SeqRange(dates) \ {dates[1]}})

\* What PLOT_OUTPUT_DIR may hold: it does not exist, it is empty, it holds
\* the plot plot.py writes for these years, or one plot per year.
PlotDirChoices(years) ==
    {NoDirectory, Directory({})}
    \cup (IF years = <<>> THEN {}
          ELSE {Directory({create_output_name(PLOT_FNAME_TEMPLATE, years,
                                              zfilled_months)})})
    \cup
    {Directory({Substitute(PLOT_FNAME_TEMPLATE, ToString(years[i]), "") \o ".png" :
                   i \in 1..Len(years)})}


\* A faulty variant: the plot is made whatever the gate answers.
GeneratePlots_ungated ==
    /\ pc = "plots"
    /\ \E config_exists \in BOOLEAN :
       \E present \in InputDirChoices(all_years) :
       \E listing \in PlotDirChoices(all_years) :
          LET input_files == all_input_files(all_years, present)
              gate == plots_already_exist(PLOT_FNAME_TEMPLATE, all_years, listing)
          IN  IF ~config_exists
              THEN /\ pc' = "raise"
                   /\ exit_msg' = "FileExistsError"
                   /\ UNCHANGED <<plotDir, plot_calls>>
              ELSE IF present = {}
              THEN /\ pc' = "exit"
                   /\ exit_msg' = "ERROR: PLOT_INPUT_DIR is empty"
                   /\ UNCHANGED <<plotDir, plot_calls>>
              ELSE IF Len(input_files) = 0
              THEN /\ pc' = "exit"
                   /\ exit_msg' = "ERROR: No input files found for specified time(s)"
                   /\ UNCHANGED <<plotDir, plot_calls>>
              ELSE IF gate.outcome = "raise"
              THEN /\ pc' = "raise"
                   /\ exit_msg' = gate.msg
                   /\ plotDir' = listing
                   /\ UNCHANGED plot_calls
              ELSE /\ plot_calls' = Append(plot_calls,
                                           [input_files |-> input_files, years |-> all_years])
                   /\ plotDir' = Directory(listing.files \cup
                        {create_output_name(PLOT_FNAME_TEMPLATE, all_years, zfilled_months)})
                   /\ pc' = "done"
                   /\ UNCHANGED exit_msg
    /\ UNCHANGED <<treeVars, checkVars, all_years, invoked, returncodes, printed, probe>>

\* generate_plots(all_years): util.parse_config raises when PLOT_CONFIG does
\* not exist; util.get_input_files exits on an empty input directory and
\* when it finds no input file; then the gate, and the plot.
GeneratePlots ==
    /\ pc = "plots"
    /\ \E config_exists \in BOOLEAN :
       \E present \in InputDirChoices(all_years) :
       \E listing \in PlotDirChoices(all_years) :
          LET input_files == all_input_files(all_years, present)
              gate == plots_already_exist(PLOT_FNAME_TEMPLATE, all_years, listing)
          IN  IF ~config_exists
              THEN /\ pc' = "raise"
                   /\ exit_msg' = "FileExistsError"
                   /\ UNCHANGED <<plotDir, plot_calls>>
              ELSE IF present = {}
              THEN /\ pc' = "exit"
                   /\ exit_msg' = "ERROR: PLOT_INPUT_DIR is empty"
                   /\ UNCHANGED <<plotDir, plot_calls>>
              ELSE IF Len(input_files) = 0
              THEN /\ pc' = "exit"
                   /\ exit_msg' = "ERROR: No input files found for specified time(s)"
                   /\ UNCHANGED <<plotDir, plot_calls>>
              ELSE IF gate.outcome = "raise"
              THEN /\ pc' = "raise"
                   /\ exit_msg' = gate.msg
                   /\ plotDir' = listing
                   /\ UNCHANGED plot_calls
              ELSE IF ~gate.value
              THEN /\ plot_calls' = Append(plot_calls,
                                           [input_files |-> input_files, years |-> all_years])
                   /\ plotDir' = Directory(listing.files \cup
                        {create_output_name(PLOT_FNAME_TEMPLATE, all_years, zfilled_months)})
                   /\ pc' = "done"
                   /\ UNCHANGED exit_msg
              ELSE /\ plotDir' = listing
                   /\ pc' = "done"
                   /\ UNCHANGED <<exit_msg, plot_calls>>
    /\ UNCHANGED <<treeVars, checkVars, all_years, invoked, returncodes, printed, probe>>

Next == Resolve \/ Inventory \/ CheckKey \/ InvokePostprocessing \/ GeneratePlots

Spec == Init /\ [][Next]_vars

-----------------------------------------------------------------------------
(* The pure functions, each called once on an argument drawn from a        *)
(* bounded set.                                                            *)

NoRun ==
    /\ baseDir = {}
    /\ tree = <<>>
    /\ pc = "probe"
    /\ exit_msg = ""
    /\ complete_chunk_dirs = <<>>
    /\ dir_of_unique_filenames = <<>>
    /\ k = 0
    /\ all_files = <<>>
    /\ missing_files = <<>>
    /\ all_years = <<>>
    /\ invoked = <<>>
    /\ returncodes = <<>>
    /\ printed = <<>>
    /\ plotDir = NoDirectory
    /\ plot_calls = <<>>

\* The years is_leap_year is called on.
LeapYearLo == 1896
LeapYearHi == 2404

InitLeap ==
    /\ NoRun
    /\ \E y \in LeapYearLo..LeapYearHi :
          probe = [fn |-> "is_leap_year", year |-> y, done |-> FALSE, result |-> FALSE]

CallIsLeapYear ==
    /\ probe.fn = "is_leap_year"
    /\ ~probe.done
    /\ probe' = [probe EXCEPT !.done = TRUE, !.result = is_leap_year(probe.year)]
    /\ UNCHANGED <<treeVars, pc, exit_msg, checkVars, stepVars>>

SpecLeap == InitLeap /\ [][CallIsLeapYear]_vars

\* The names the chunk-name pattern is tried on, in either mode: with or
\* without text before the digits, four digits of a year NameYearLo..NameYearHi
\* or none, and what follows them.
NameYearLo == 1977
NameYearHi == 1988

NameLeads == {"", "old_", "run2."}
NameTails == ChunkTails \cup {"", "_chunks_", "-chunk"}

ProbeNames ==
    {[lead |-> l, year |-> y, tail |-> t] :
        l \in NameLeads, y \in (NameYearLo..NameYearHi) \cup {0}, t \in NameTails}

InitName ==
    /\ NoRun
    /\ \E mode \in BOOLEAN : \E n \in ProbeNames :
          probe = [fn |-> "chunk_name_match", mode |-> mode, name |-> n,
                   done |-> FALSE, result |-> 0]

CallChunkNameMatch ==
    /\ probe.fn = "chunk_name_match"
    /\ ~probe.done
    /\ probe' = [probe EXCEPT !.done = TRUE,
                              !.result = chunk_name_match(probe.mode, probe.name)]
    /\ UNCHANGED <<treeVars, pc, exit_msg, checkVars, stepVars>>

SpecName == InitName /\ [][CallChunkNameMatch]_vars

-----------------------------------------------------------------------------
(* postprocess.core.variables.py, one run per unit of work; the runs of    *)
(* several units go on side by side, each a step at a time.                *)

\* fname_fx, and the names clean_fx writes to (in the working directory)
fname_fx == "NAM-12_ERA5_evaluation_r1i1p1f1_NCAR_WRF461_v1-r1_fx.nc"
sftlf_fout == "sftlf_" \o fname_fx
orog_fout == "orog_" \o fname_fx

\* The calls at the end of the script that are not commented out, and the
\* steps of clean_fx: two files written, then cmor_comp_save for each.
CalledFunctions == <<"clean_fx">>

clean_fx_steps(year, mon) ==
    <<[op |-> "to_netcdf", file |-> sftlf_fout],
      [op |-> "to_netcdf", file |-> orog_fout],
      [op |-> "cmor_comp_save", file |-> sftlf_fout],
      [op |-> "cmor_comp_save", file |-> orog_fout]>>

\* The steps of one run, for the year and the month it was started with.
UnitSteps(year, mon) ==
    FlattenSeqs([i \in 1..Len(CalledFunctions) |->
        IF CalledFunctions[i] = "clean_fx" THEN clean_fx_steps(year, mon) ELSE <<>>])

\* The units that run: the first MaxUnits of these (year, month) pairs.
MaxUnits == 3

UnitUniverse ==
    [i \in 1..MaxUnits |->
        [year |-> 1980 + ((i - 1) \div 2), m |-> ((i - 1) % 2) + 1]]

Units == SeqRange(UnitUniverse)

InitUnits ==
    /\ NoRun
    /\ probe = [fn |-> "units", upc |-> [u \in Units |-> 0], writes |-> {},
                last_writer |-> <<>>]

\* One step of the run of unit u.  A file written is recorded with the
\* unit that wrote it; last_writer is the unit whose content the file holds.
RunUnitStep ==
    /\ probe.fn = "units"
    /\ \E u \in Units :
          LET steps == UnitSteps(ToString(u.year), zfill2(u.m))
          IN  /\ probe.upc[u] < Len(steps)
              /\ LET step == steps[probe.upc[u] + 1]
                 IN  probe' =
                        [probe EXCEPT
                            !.upc = [probe.upc EXCEPT ![u] = @ + 1],
                            !.writes =
                                IF step.op = "to_netcdf"
                                THEN @ \cup {[file |-> step.file, unit |-> u]}
                                ELSE @,
                            !.last_writer =
                                IF step.op = "to_netcdf"
                                THEN DictMerge(@, [f \in {step.file} |-> u])
                                ELSE @]
    /\ UNCHANGED <<treeVars, pc, exit_msg, checkVars, stepVars>>

SpecUnits == InitUnits /\ [][RunUnitStep]_vars

-----------------------------------------------------------------------------
(* The arguments the post-processing script is started with, by            *)
(* invoke_postprocessing and by the command lines of write.cmd.py, and     *)
(* what the script reads of them.                                          *)

\* write.cmd.py
wrf_d01_out_dir == "/glade/campaign/ral/risc/collections/na-cordex-cmip6/raw/ERA5/eval/"

varlist ==
    <<"rsds", "rlds", "pr", "evspsbl", "tas", "hurs", "ps", "psl", "huss",
      "sfcWind", "fx">>

sim_start_year(year) == ((year \div 10) * 10) - 3

dat_dir(year) == wrf_d01_out_dir \o ToString(sim_start_year(year)) \o "_chunk/"

\* cmd1: what follows "python <cwd>/postprocess.core.variables.py"
cmd1_arguments(year, var) == <<dat_dir(year), ToString(year), var>>

\* int(s) of a text: the number it is the decimal writing of, up to
\* MaxParsedInt, or NotAnInt where int(s) raises ValueError.
MaxParsedInt == 2100
NotAnInt == 0 - 1

IntOf(s) ==
    IF \E n \in 0..MaxParsedInt : ToString(n) = s
    THEN CHOOSE n \in 0..MaxParsedInt : ToString(n) = s
    ELSE NotAnInt

\* postprocess.core.variables.py: year = sys.argv[1]; m = int(sys.argv[2]);
\* mon = f'{m:02d}'; then start_date = pd.Timestamp(f'{year}-{mon}-01').
\* argv is sys.argv[1:].
read_arguments(argv) ==
    IF Len(argv) < 2
    THEN [outcome |-> "raise", msg |-> "IndexError: list index out of range",
          year |-> "", m |-> 0, mon |-> ""]
    ELSE IF IntOf(argv[2]) = NotAnInt
    THEN [outcome |-> "raise", msg |-> "ValueError: invalid literal for int()",
          year |-> argv[1], m |-> 0, mon |-> ""]
    ELSE LET m == IntOf(argv[2])
             mon == zfill2(m)
         IN  IF IntOf(argv[1]) = NotAnInt \/ m \notin 1..12
             THEN [outcome |-> "raise", msg |-> "ValueError: could not convert string to Timestamp",
                   year |-> argv[1], m |-> m, mon |-> mon]
             ELSE [outcome |-> "ok", msg |-> "", year |-> argv[1], m |-> m, mon |-> mon]

\* The years a unit of work is of.
EntryYearLo == 1980
EntryYearHi == 1989

Callers == {"invoke_postprocessing", "write.cmd.py"}

InitEntry ==
    /\ NoRun
    /\ \E c \in Callers : \E y \in EntryYearLo..EntryYearHi :
       \E v \in (IF c = "write.cmd.py" THEN SeqRange(varlist) ELSE {""}) :
          probe = [fn |-> "read_arguments", caller |-> c, year |-> y, var |-> v,
                   done |-> FALSE, argv |-> <<>>,
                   result |-> [outcome |-> "", msg |-> "", year |-> "", m |-> 0, mon |-> ""]]

StartScript ==
    /\ probe.fn = "read_arguments"
    /\ ~probe.done
    /\ LET argv == IF probe.caller = "write.cmd.py"
                   THEN cmd1_arguments(probe.year, probe.var)
                   ELSE ArgumentsOf(probe.year)
       IN  probe' = [probe EXCEPT !.done = TRUE, !.argv = argv,
                                  !.result = read_arguments(argv)]
    /\ UNCHANGED <<treeVars, pc, exit_msg, checkVars, stepVars>>

SpecEntry == InitEntry /\ [][StartScript]_vars

-----------------------------------------------------------------------------
(* write.cmd.py's choice of the chunk directory of a year, and the years   *)
(* check_for_all_files verifies in that directory.                         *)

\* The years a command is written for.
AssignYearLo == 1950
AssignYearHi == 2100

\* first_year of check_for_all_files for a complete chunk directory that
\* starts in year cy: the least year its files carry.
first_year_of(cy) ==
    CHOOSE y \in ChunkFileYears(cy) :
        /\ CompleteCell(cy, KnownStreams[1], y) # {}
        /\ \A z \in ChunkFileYears(cy) :
              CompleteCell(cy, KnownStreams[1], z) # {} => y <= z

InitAssign ==
    /\ NoRun
    /\ \E y \in AssignYearLo..AssignYearHi :
          probe = [fn |-> "sim_start_year", year |-> y, done |-> FALSE,
                   chunk |-> 0, years_of_interest |-> {}]

AssignChunk ==
    /\ probe.fn = "sim_start_year"
    /\ ~probe.done
    /\ LET chunk == sim_start_year(probe.year)
       IN  probe' = [probe EXCEPT !.done = TRUE, !.chunk = chunk,
                        !.years_of_interest = years_of_interest(first_year_of(chunk))]
    /\ UNCHANGED <<treeVars, pc, exit_msg, checkVars, stepVars>>

SpecAssign == InitAssign /\ [][AssignChunk]_vars

-----------------------------------------------------------------------------
(* check_for_all_chunk_dirs called twice on a base directory that does not *)
(* change, the listing in any order each time.                             *)

\* The base directory holds at most MaxResolveEntries entries.
MaxResolveEntries == 3

OrdersOf(S) ==
    {q \in [1..Cardinality(S) -> S] :
        \A i \in 1..Cardinality(S) : \A j \in 1..Cardinality(S) :
            q[i] = q[j] => i = j}

InitResolve ==
    /\ NoRun
    /\ \E L \in {S \in SUBSET SeqRange(EntryUniverse) :
                    Cardinality(S) <= MaxResolveEntries} :
          probe = [fn |-> "check_for_all_chunk_dirs", entries |-> L, calls |-> <<>>]

CallResolve ==
    /\ probe.fn = "check_for_all_chunk_dirs"
    /\ Len(probe.calls) < 2
    /\ \E listing \in OrdersOf(probe.entries) :
          probe' = [probe EXCEPT
                       !.calls = Append(@, [listing |-> listing,
                                            result |-> check_for_all_chunk_dirs(listing)])]
    /\ UNCHANGED <<treeVars, pc, exit_msg, checkVars, stepVars>>

SpecResolve == InitResolve /\ [][CallResolve]_vars

\* The arguments of plots_already_exist: lists of at most MaxGateYears years
\* out of GateYears, a year may repeat; the listing holds any of the plots
\* plot.py names after these years, a plot of another template and a file
\* of another extension.
MaxGateYears == 3
GateYears == {1988, 1989}

RECURSIVE SeqsUpTo(_, _)
SeqsUpTo(S, n) ==
    IF n = 0 THEN {<<>>}
    ELSE LET shorter == SeqsUpTo(S, n - 1)
         IN  shorter \cup {Append(q, x) : q \in shorter, x \in S}

GateFiles ==
    {Substitute(PLOT_FNAME_TEMPLATE, ToString(y), "") \o ".png" : y \in GateYears}
    \cup {Substitute(INPUT_FNAME_TEMPLATE, "1988", "12") \o ".png",
          Substitute(PLOT_FNAME_TEMPLATE, "1988", "") \o ".pdf"}

GateTemplates == {PLOT_FNAME_TEMPLATE, <<"plot", "-", "${YEAR}">>}

InitGate ==
    /\ NoRun
    /\ \E ys \in SeqsUpTo(GateYears, MaxGateYears) :
       \E listing \in {Directory(fs) : fs \in SUBSET GateFiles} \cup {NoDirectory} :
       \E t \in GateTemplates :
          probe = [fn |-> "plots_already_exist", template |-> t, years |-> ys,
                   listing |-> listing, done |-> FALSE,
                   result |-> [outcome |-> "", value |-> FALSE, msg |-> ""]]

CallPlotsAlreadyExist ==
    /\ probe.fn = "plots_already_exist"
    /\ ~probe.done
    /\ probe' = [probe EXCEPT
                    !.done = TRUE,
                    !.result = plots_already_exist(probe.template, probe.years,
                                                   probe.listing)]
    /\ UNCHANGED <<treeVars, pc, exit_msg, checkVars, stepVars>>

SpecGate == InitGate /\ [][CallPlotsAlreadyExist]_vars

-----------------------------------------------------------------------------
(* write.cmd.py run once or twice in one working directory.                *)

\* cwd = os.getcwd(), as the words a shell splits its text into: a path
\* without blanks is one word, a path with a blank in it is two.
WorkingDirs == {<<"/glade/work/postprocess">>, <<"/glade/work/post", "process">>}

RECURSIVE JoinWords(_)
JoinWords(words) ==
    IF Len(words) = 1 THEN words[1]
    ELSE words[1] \o " " \o JoinWords(Tail(words))

\* cmdfile = f"{cwd}/cmdfile"
cmdfile(cwd) == JoinWords(cwd) \o "/cmdfile"

\* os.system(f'rm {cmdfile}'): the shell hands rm the words of the text, and
\* rm removes the files they name; its failure is not looked at.
rm_arguments(cwd) == [i \in 1..Len(cwd) |->
                         IF i = Len(cwd) THEN cwd[i] \o "/cmdfile" ELSE cwd[i]]

\* cmd2 = cmd1 + ' > ' + var + '/out.${step}.log 2>&1'
cmd2(cwd, year, var) ==
    "python " \o JoinWords(cwd) \o "/postprocess.core.variables.py "
        \o cmd1_arguments(year, var)[1] \o " " \o cmd1_arguments(year, var)[2]
        \o " " \o cmd1_arguments(year, var)[3]
        \o " > " \o var \o "/out.${step}.log 2>&1"

\* A file: whether it exists, and its lines.
NoFile == [exists |-> FALSE, lines |-> <<>>]
FileOf(lines) == [exists |-> TRUE, lines |-> lines]

\* for var in varlist: for year in range(start_year, end_year + 1): the
\* lines appended, in the order they are written.
written_lines(cwd, start_year, end_year) ==
    LET n == IF end_year < start_year THEN 0 ELSE end_year - start_year + 1
    IN  [i \in 1..(Len(varlist) * n) |->
            cmd2(cwd, start_year + ((i - 1) % n), varlist[((i - 1) \div n) + 1])]

\* The whole script: the command file is removed if it exists, and every
\* line is appended to it (open(cmdfile, "a") creates the file).
write_cmd(cwd, start_year, end_year, file) ==
    LET removed == IF file.exists /\ cmdfile(cwd) \in SeqRange(rm_arguments(cwd))
                   THEN NoFile ELSE file
        lines == written_lines(cwd, start_year, end_year)
    IN  IF lines = <<>> THEN removed ELSE FileOf(removed.lines \o lines)

\* start_year and end_year as the user may set them.
CmdYearLo == 1979
CmdYearHi == 1982

MaxCmdRuns == 2

\* What the command file may be before the first run: not there, empty, a
\* line of another origin, or what an earlier run for 1980 has left.
FilesBefore(cwd) ==
    {NoFile, FileOf(<<>>), FileOf(<<"echo done">>),
     FileOf(written_lines(cwd, 1980, 1980))}

InitCmd ==
    /\ NoRun
    /\ \E cwd \in WorkingDirs :
       \E start_year \in CmdYearLo..CmdYearHi, end_year \in CmdYearLo..CmdYearHi :
       \E before \in FilesBefore(cwd) :
          probe = [fn |-> "write.cmd.py", cwd |-> cwd, start_year |-> start_year,
                   end_year |-> end_year, before |-> before, file |-> before,
                   after |-> <<>>]

RunWriteCmd ==
    /\ probe.fn = "write.cmd.py"
    /\ Len(probe.after) < MaxCmdRuns
    /\ LET file == write_cmd(probe.cwd, probe.start_year, probe.end_year, probe.file)
       IN  probe' = [probe EXCEPT !.file = file, !.after = Append(@, file)]
    /\ UNCHANGED <<treeVars, pc, exit_msg, checkVars, stepVars>>

SpecCmd == InitCmd /\ [][RunWriteCmd]_vars

-----------------------------------------------------------------------------

(* generate_plots called twice for one list of years, the configuration    *)
(* and every input file in place.                                          *)

\* os.getenv('OUTPUT_DIR') in plot.create_output_name: not set, so that the
\* plot goes to settings['output_dir'] = PLOT_OUTPUT_DIR, or set to some
\* other directory.
OutputDirEnv == {"unset", "other"}

MaxPlotRuns == 2

InitReplot ==
    /\ NoRun
    /\ \E ys \in SeqsUpTo(GateYears, MaxGateYears) \ {<<>>} :
       \E listing \in {Directory(fs) : fs \in SUBSET GateFiles} \cup {NoDirectory} :
       \E env \in OutputDirEnv :
          probe = [fn |-> "generate_plots", years |-> ys, OUTPUT_DIR |-> env,
                   dir |-> listing, runs |-> <<>>]

\* One call of generate_plots(years): the gate reads PLOT_OUTPUT_DIR, and
\* plot.make_time_series_plots saves the one file create_output_name names.
RunGeneratePlots ==
    /\ probe.fn = "generate_plots"
    /\ Len(probe.runs) < MaxPlotRuns
    /\ \A i \in 1..Len(probe.runs) : probe.runs[i].outcome = "return"
    /\ LET gate == plots_already_exist(PLOT_FNAME_TEMPLATE, probe.years, probe.dir)
           plot_name == create_output_name(PLOT_FNAME_TEMPLATE, probe.years,
                                           zfilled_months)
       IN  IF gate.outcome = "raise"
           THEN probe' = [probe EXCEPT !.runs =
                       Append(@, [outcome |-> "raise", plotted |-> FALSE])]
           ELSE IF ~gate.value
           THEN probe' = [probe EXCEPT
                       !.runs = Append(@, [outcome |-> "return", plotted |-> TRUE]),
                       !.dir = IF probe.OUTPUT_DIR = "unset"
                               THEN Directory(@.files \cup {plot_name})
                               ELSE @]
           ELSE probe' = [probe EXCEPT !.runs =
                       Append(@, [outcome |-> "return", plotted |-> FALSE])]
    /\ UNCHANGED <<treeVars, pc, exit_msg, checkVars, stepVars>>

SpecReplot == InitReplot /\ [][RunGeneratePlots]_vars

-----------------------------------------------------------------------------
(* What the claims speak of, read off the tree rather than off the result  *)
(* of the check.                                                           *)

\* The pattern families of a directory: the prefixes (the text before the
\* year) of its dated files.
FamiliesOf(d) == {pt.prefix : pt \in SeqRange(dir_of_unique_filenames[d])}

\* The first year any dated file of the directory carries.
FirstFileYear(d) ==
    SetMax({y \in FileYearLo..FileYearHi :
              /\ \E pt \in SeqRange(dir_of_unique_filenames[d]) : pt.year = y
              /\ \A pt \in SeqRange(dir_of_unique_filenames[d]) : pt.year >= y})

\* The years of interest: from the ordinal start year on, the final year of
\* the chunk's span and the one after it left out.
ClaimYearsOfInterest(d) ==
    (FirstFileYear(d) + ORDINAL_START_YEAR - 1) ..
        (FirstFileYear(d) + NUMBER_OF_YEARS_WITHIN_SIMULATION - 2)

ClaimExpectedCount(y) == IF CalendarLeap(y) THEN 366 ELSE 365

\* The number of files the directory holds of one family and one year.
FileCount(d, p, y) == Cardinality(CellFiles(d.year, tree[d], p, y))

\* Every family of the directory has the expected number of files for
\* every year of interest.
EveryPairComplete(d) ==
    \A p \in FamiliesOf(d) : \A y \in ClaimYearsOfInterest(d) :
        FileCount(d, p, y) = ClaimExpectedCount(y)

\* The directory CheckKey handled last: it passed, or the run ended in it.
PassedKey == pc \in {"check", "main"} /\ k > 1
FailedInCheck == pc \in {"exit", "raise"} /\ k \in 1..Len(complete_chunk_dirs)
LastPassed == complete_chunk_dirs[k - 1]
FailedDir == complete_chunk_dirs[k]

AscendingList(S) ==
    IF S = {} THEN <<>>
    ELSE LET lo == CHOOSE x \in S : \A y \in S : x <= y
         IN  [i \in 1..Cardinality(S) |-> lo + i - 1]

-----------------------------------------------------------------------------
(* The claims.                                                             *)

\* C1: for every integer year Y, is_leap_year(Y) is true exactly when Y is
\* divisible by 4 and not (divisible by 100 and not divisible by 400); 2000,
\* 2024 and 2400 give true and 1900, 2023 and 2100 give false.
C1_LeapYearRule ==
    (probe.fn = "is_leap_year" /\ probe.done) =>
        /\ probe.result <=>
              ((probe.year % 4 = 0)
               /\ ~((probe.year % 100 = 0) /\ ~(probe.year % 400 = 0)))
        /\ probe.year \in {2000, 2024, 2400} => probe.result
        /\ probe.year \in {1900, 2023, 2100} => ~probe.result

C1_Witness ==
    probe.fn = "is_leap_year" /\ probe.done /\ probe.year = 2100 /\ ~probe.result

\* C2: if for some family of a chunk and some year of interest the number of
\* files differs from the expected count (no file at all included),
\* check_dirs_for_data ends the run; it returns no report for a chunk in
\* which some (family, year of interest) pair is incomplete.
C2_NoReportForIncompleteChunk ==
    (pc = "main" /\ baseDir = FullListing) =>
        \A d \in DOMAIN all_files : EveryPairComplete(d)

\* C3: a chunk directory of exactly six pattern families, each with 365
\* (366 in a leap year) files for every year of interest, does not end the
\* run, has no file reported missing, and every year of interest is
\* returned as valid for it.
C3_CompleteChunkPasses ==
    /\ PassedKey =>
          ((Cardinality(FamiliesOf(LastPassed)) = 6 /\ EveryPairComplete(LastPassed)) =>
              /\ LastPassed \in DOMAIN all_files
              /\ SeqRange(all_files[LastPassed]) = ClaimYearsOfInterest(LastPassed)
              /\ missing_files = <<>>)
    /\ FailedInCheck =>
          ~(Cardinality(FamiliesOf(FailedDir)) = 6 /\ EveryPairComplete(FailedDir))

C3_Witness ==
    /\ pc = "main"
    /\ baseDir = FullListing
    /\ Cardinality(FamiliesOf(LastPassed)) = 6
    /\ EveryPairComplete(LastPassed)
    /\ SeqRange(all_files[LastPassed]) = ClaimYearsOfInterest(LastPassed)

\* C4: when a chunk directory lacks exactly one daily file of a family and a
\* year of interest, whatever the month and the day (31 January, 29 February
\* of a leap year), the missing files check_for_all_files reports hold the
\* name of that file, and hold no file that is present.
C4_MissingFileIsReported ==
    (FailedInCheck /\ baseDir = FullListing /\ tree[FailedDir].kind = "lack_day"
        /\ tree[FailedDir].year \in ClaimYearsOfInterest(FailedDir)) =>
        LET c == tree[FailedDir]
            lacking == FullPath(FailedDir,
                                Stamp(c.prefix, c.year, c.month, c.day, "00:00:00"))
        IN  /\ lacking \in SeqRange(missing_files)
            /\ \A f \in SeqRange(missing_files) :
                  f.name \notin CellFiles(FailedDir.year, c, f.name.prefix, f.name.date[1])

\* C5: check_dirs_for_data ends the run for a chunk directory on the count
\* of its pattern families if and only if that count is not six; a
\* directory of exactly six families passes this check.
C5_SixFamiliesExactly ==
    (baseDir = FullListing) =>
        /\ PassedKey => Cardinality(FamiliesOf(LastPassed)) = 6
        /\ (FailedInCheck /\ exit_msg = "Insufficient number of filename patterns.") =>
              Cardinality(FamiliesOf(FailedDir)) # 6

\* C6: check_for_all_chunk_dirs succeeds only when the start years of the
\* chunk directories are exactly first_year, first_year + YEAR_INCREMENT, ...
\* up to first_year + TOTAL_YEARS_IN_SIMULATION; a gap or an extra directory
\* ends the run.
C6_ExactChunkSequence ==
    (pc = "inventory") =>
        LET years == [i \in 1..Len(complete_chunk_dirs) |->
                          ChunkNameMatch(complete_chunk_dirs[i])]
        IN  years = [i \in 1..((TOTAL_YEARS_IN_SIMULATION \div YEAR_INCREMENT) + 1) |->
                        years[1] + (i - 1) * YEAR_INCREMENT]

\* C7: in every run, if the resolution of the chunk directories or the
\* completeness check of a chunk fails, neither the post-processing script
\* nor the plotting step is invoked: nothing is invoked before every chunk
\* directory has passed verification.
C7_NothingInvokedUnlessVerified ==
    /\ (invoked # <<>> \/ plot_calls # <<>>) =>
          /\ SeqRange(complete_chunk_dirs) = baseDir
          /\ DOMAIN all_files = baseDir
    /\ (pc \in {"exit", "raise"} /\ DOMAIN all_files # baseDir) =>
          (invoked = <<>> /\ plot_calls = <<>>)

C7_Witness ==
    /\ pc = "exit"
    /\ exit_msg = "Exiting due to missing files"
    /\ k > 1
    /\ invoked = <<>>

\* C8: for every year of the completeness report and every month 1..12,
\* invoke_postprocessing invokes the post-processing step with that
\* (year, month) pair as its arguments.
C8_InvokedPerYearAndMonth ==
    (pc = "plots" /\ baseDir = FullListing) =>
        \A d \in DOMAIN all_files : \A y \in SeqRange(all_files[d]) : \A m \in 1..12 :
            <<ToString(y), ToString(m)>> \in SeqRange(invoked)

\* C9: plots_already_exist(template, years) returns True if and only if, for
\* every year of years, the name built from the static part of the template,
\* the year and .png is in the listing of the plot output directory; one
\* absent name makes it return False.
C9_GateIffAllPresent ==
    (probe.fn = "plots_already_exist" /\ probe.done) =>
        /\ (probe.listing.exists /\ UnderscoreDollar(probe.template) # {}) =>
              probe.result.outcome = "return"
        /\ probe.result.outcome = "return" =>
              (probe.result.value <=>
                  \A i \in 1..Len(probe.years) :
                      constructed_fname(probe.template, probe.years[i])
                          \in probe.listing.files)

C9_Witness ==
    /\ probe.fn = "plots_already_exist"
    /\ probe.done
    /\ probe.result.outcome = "return"
    /\ probe.result.value
    /\ Len(probe.years) = 3
    /\ probe.years[1] = probe.years[3]

\* C10: when every year of interest of a chunk is complete, the value
\* check_for_all_files returns for the directory is the list of its years of
\* interest in ascending order, each year once (1987 chunk, ordinal start
\* year 2: [1988, ..., 1998]).
C10_ValidYearsAscendingOnce ==
    (PassedKey /\ baseDir = FullListing /\ EveryPairComplete(LastPassed)) =>
        all_files[LastPassed] = AscendingList(ClaimYearsOfInterest(LastPassed))

\* The years of interest check_for_all_files computes for a directory: from
\* the first of the years its patterns carry.
ComputedYearsOfInterest(d) ==
    years_of_interest(SeqMin([i \in 1..Len(dir_of_unique_filenames[d]) |->
                                 dir_of_unique_filenames[d][i].year]))

\* check_for_all_files was called for the directory and came to its end:
\* it returned, or it ended the run on missing files.
CheckedToEnd(d) ==
    \/ PassedKey /\ d = LastPassed
    \/ FailedInCheck /\ exit_msg = "Exiting due to missing files" /\ d = FailedDir

\* C11: for every chunk directory and every set of files in it, the final
\* year of the chunk's span (the start year of the directory's name plus
\* NUMBER_OF_YEARS_WITHIN_SIMULATION) is not one of the years of interest
\* check_for_all_files computes.
C11_FinalYearExcluded ==
    \A d \in SeqRange(complete_chunk_dirs) :
        CheckedToEnd(d) =>
            (d.year + NUMBER_OF_YEARS_WITHIN_SIMULATION) \notin ComputedYearsOfInterest(d)

\* C12: for every chunk directory and every set of files in it, none of the
\* first ORDINAL_START_YEAR - 1 years of the chunk, counted from the start
\* year of the directory's name, is a year of interest; with
\* ORDINAL_START_YEAR = 1 the start year is a year of interest.
C12_WarmUpYearsExcluded ==
    \A d \in SeqRange(complete_chunk_dirs) :
        CheckedToEnd(d) =>
            /\ \A y \in d.year..(d.year + ORDINAL_START_YEAR - 2) :
                  y \notin ComputedYearsOfInterest(d)
            /\ ORDINAL_START_YEAR = 1 => d.year \in ComputedYearsOfInterest(d)

\* The patterns of a directory whose year is a year of interest, those
\* check_for_all_files counts the files of.
CountedPatterns(d) ==
    {pt \in SeqRange(dir_of_unique_filenames[d]) : pt.year \in ComputedYearsOfInterest(d)}

RuleCount(y) == IF is_leap_year(y) THEN 366 ELSE 365

PairPasses(d, pt) == FileCount(d, pt.prefix, pt.year) = RuleCount(pt.year)

C14_PatternFollowsMode ==
    (probe.fn = "chunk_name_match" /\ probe.done) =>
        LET n == probe.name
            digits_chunk == n.year # 0 /\ n.tail \in ChunkTails
            accepted == probe.result # 0
        IN  IF probe.mode
            THEN digits_chunk => accepted
            ELSE accepted <=> (digits_chunk /\ n.lead = "")

\* C15: if an entry of the base directory has a name that does not match
\* the chunk-name pattern in force, check_for_all_chunk_dirs ends the whole
\* run with a failure: the entry is not skipped and no list of chunk
\* directories is returned.
C15_UnmatchedNameEndsRun ==
    (pc # "resolve" /\ \E e \in baseDir : ~(e.year # 0 /\ e.tail \in ChunkTails)) =>
        /\ pc = "exit"
        /\ exit_msg = "No directories with YEAR_chunk name were found"
        /\ complete_chunk_dirs = <<>>
        /\ all_files = <<>>
        /\ invoked = <<>>

C15_Witness ==
    /\ pc = "exit"
    /\ ReadmeEntry \in baseDir
    /\ FullListing \subseteq baseDir
    /\ complete_chunk_dirs = <<>>

\* C16: the inventory of a chunk directory records, for each file name that
\* matches the date-suffix pattern, the text before the four digits of the
\* year, once: files of one stream dated in different years give a single
\* family, and a directory that holds the six known streams over several
\* years has exactly six families.
C16_OneFamilyPerStream ==
    (pc = "check" /\ k = 1) =>
        \A d \in DOMAIN dir_of_unique_filenames :
            LET recorded == dir_of_unique_filenames[d]
            IN  /\ Len(recorded) = Cardinality({recorded[i].prefix : i \in 1..Len(recorded)})
                /\ tree[d].kind = "complete" => Len(recorded) = 6

\* C17: when a run of the post-processing script ends with a non-zero
\* status, invoke_postprocessing makes the failure known to its caller or in
\* what it prints, does not run the same unit again, and still runs every
\* unit that remains.
C17_NonZeroExitSurfaced ==
    (pc = "plots") =>
        /\ Len(invoked) = Len(all_years)
        /\ Len(returncodes) = Len(invoked)
        /\ \A i \in 1..Len(invoked) : invoked[i][1] = ToString(all_years[i])
        /\ (\E i \in 1..Len(returncodes) : returncodes[i] # 0) =>
              \/ exit_msg # ""
              \/ \E j \in 1..Len(printed) :
                    printed[j].text \notin
                        {"Invoking postprocess script for",
                         "subprocess.run(['python', POST_PROCESS_SCRIPT]+ arguments, capture_output=True, text=True)"}

\* C18: when more than one (year, month) unit of the post-processing step
\* runs, in any interleaving, no two different units write the same output
\* file.
C18_UnitsWriteDistinctFiles ==
    (probe.fn = "units") =>
        \A w1 \in probe.writes : \A w2 \in probe.writes :
            w1.file = w2.file => w1.unit = w2.unit

\* C19: every start of the post-processing script by the orchestration code
\* (invoke_postprocessing, and the command lines write.cmd.py produces)
\* passes the positional arguments the script reads: the year first, the
\* month without leading zero second.
C19_ArgumentsAsRead ==
    (probe.fn = "read_arguments" /\ probe.done) =>
        /\ Len(probe.argv) = 2
        /\ probe.argv[1] = ToString(probe.year)
        /\ \E m \in 1..12 : probe.argv[2] = ToString(m)
        /\ probe.result.outcome = "ok"
        /\ probe.result.year = ToString(probe.year)

\* C20: if the total span is not consistent with the year increment and the
\* number of chunk directories found (TOTAL_YEARS_IN_SIMULATION is not a
\* multiple of YEAR_INCREMENT, or the number of chunk directories differs
\* from TOTAL_YEARS_IN_SIMULATION / YEAR_INCREMENT + 1), the verification
\* fails and returns no list of chunk directories.
C20_InconsistentLayoutFails ==
    (pc = "inventory") =>
        /\ TOTAL_YEARS_IN_SIMULATION % YEAR_INCREMENT = 0
        /\ Len(complete_chunk_dirs) = (TOTAL_YEARS_IN_SIMULATION \div YEAR_INCREMENT) + 1

\* The files of a counted pattern that the tree lacks, 31 January left out.
LackingFiles(d, pt) ==
    {f \in FullYear(pt.prefix, pt.year) \ CellFiles(d.year, tree[d], pt.prefix, pt.year) :
        f.date # <<pt.year, 1, 31>>}

C22_ResolveTwiceSame ==
    (probe.fn = "check_for_all_chunk_dirs") =>
        /\ Len(probe.calls) = 2 => probe.calls[1].result = probe.calls[2].result
        /\ \A c \in 1..Len(probe.calls) :
              probe.calls[c].result.outcome = "return" =>
                  LET value == probe.calls[c].result.value
                  IN  /\ SeqRange(value) = probe.entries
                      /\ Len(value) = Cardinality(probe.entries)
                      /\ \A i \in 1..Len(value) : \A j \in 1..Len(value) :
                            i < j => EntryRank(value[i]) < EntryRank(value[j])

C22_Witness ==
    /\ probe.fn = "check_for_all_chunk_dirs"
    /\ Len(probe.calls) = 2
    /\ probe.calls[1].listing # probe.calls[2].listing
    /\ probe.calls[1].result.outcome = "return"
    /\ Len(probe.calls[2].result.value) = 3


\* The gate answered that plots are missing: some listing of PLOT_OUTPUT_DIR
\* for which plots_already_exist returns False is the one the plot was added
\* to.
GateSaidMissing ==
    \E listing \in PlotDirChoices(all_years) :
        LET gate == plots_already_exist(PLOT_FNAME_TEMPLATE, all_years, listing)
        IN  /\ gate.outcome = "return"
            /\ ~gate.value
            /\ plotDir' = Directory(listing.files \cup
                 {create_output_name(PLOT_FNAME_TEMPLATE, all_years, zfilled_months)})

\* C23: in every run of the main program the steps happen in this order:
\* all chunk directories are resolved, then every chunk is inventoried and
\* checked, then post-processing is invoked for the verified years, then
\* the plot gate is evaluated, and the plot is made only after every
\* post-processing invocation has returned and only if the gate answered
\* that plots are missing.
C23_StepsInOrder ==
    [][/\ (complete_chunk_dirs' # complete_chunk_dirs) =>
              /\ pc = "resolve"
              /\ dir_of_unique_filenames = <<>>
       /\ (dir_of_unique_filenames' # dir_of_unique_filenames) =>
              /\ pc = "inventory"
              /\ DOMAIN dir_of_unique_filenames' = SeqRange(complete_chunk_dirs)
              /\ all_files = <<>>
       /\ (all_files' # all_files) =>
              /\ pc = "check"
              /\ DOMAIN dir_of_unique_filenames = SeqRange(complete_chunk_dirs)
              /\ invoked = <<>>
       /\ (invoked' # invoked) =>
              /\ pc = "main"
              /\ DOMAIN all_files = SeqRange(complete_chunk_dirs)
              /\ Len(returncodes') = Len(invoked')
              /\ all_years' = FlattenReport(all_files, complete_chunk_dirs)
              /\ plotDir = NoDirectory
              /\ plot_calls = <<>>
       /\ (plotDir' # plotDir) => pc = "plots"
       /\ (plot_calls' # plot_calls) =>
              /\ pc = "plots"
              /\ invoked # <<>>
              /\ Len(returncodes) = Len(invoked)
              /\ Len(invoked) = Len(all_years)
              /\ GateSaidMissing
              /\ plot_calls' = <<[input_files |-> plot_calls'[1].input_files,
                                  years |-> all_years]>>
      ]_vars

C23_Witness ==
    /\ pc = "done"
    /\ Len(plot_calls) = 1
    /\ Len(invoked) = Len(all_years)
    /\ Len(returncodes) = Len(invoked)
    /\ DOMAIN all_files = SeqRange(complete_chunk_dirs)
    /\ plotDir.exists


\* C24: in one run no year is submitted to the post-processing step more
\* than once: each year appears at most once in the list of years flattened
\* from the completeness report, also when the report covers several chunk
\* directories whose year ranges touch and each has six pattern families.
C24_NoYearSubmittedTwice ==
    (pc = "plots") =>
        /\ \A i \in 1..Len(all_years) : \A j \in 1..Len(all_years) :
              all_years[i] = all_years[j] => i = j
        /\ \A i \in 1..Len(invoked) : \A j \in 1..Len(invoked) :
              invoked[i] = invoked[j] => i = j


\* C25: for every year Y, the chunk directory that write.cmd.py assigns to Y
\* (start year floor(Y/10)*10 - 3) is a chunk whose years of interest, as
\* check_for_all_files computes them, contain Y.
C25_AssignedChunkVerifiesYear ==
    (probe.fn = "sim_start_year" /\ probe.done) =>
        /\ probe.chunk = ((probe.year \div 10) * 10) - 3
        /\ probe.year \in probe.years_of_interest


\* C26: the plot gate makes plotting idempotent: after generate_plots has
\* completed for a list of one or more years, the directory the gate
\* inspects holds every file name the gate expects, and a second
\* generate_plots for the same list finds plots_already_exist true and does
\* not plot again.
C26_SecondRunPlotsNothing ==
    (probe.fn = "generate_plots" /\ Len(probe.runs) >= 1
        /\ probe.runs[1].outcome = "return") =>
        /\ \A i \in 1..Len(probe.years) :
              constructed_fname(PLOT_FNAME_TEMPLATE, probe.years[i]) \in probe.dir.files
        /\ Len(probe.runs) = 2 =>
              /\ probe.runs[2].outcome = "return"
              /\ ~probe.runs[2].plotted


\* C27: generate_plots makes the plot only with complete post-processed
\* input: if the input file of any (year, month), for a year in all_years
\* and a month 1..12, is absent, the plot is not made with the remaining
\* files.
C27_PlotOnlyWithCompleteInput ==
    (pc = "done" /\ plot_calls # <<>>) =>
        \A c \in 1..Len(plot_calls) :
            \A y \in SeqRange(all_years) : \A m \in 1..12 :
                [year |-> ToString(y), month |-> zfill2(m)]
                    \in SeqRange(plot_calls[c].input_files)


\* C28: when the base directory contains no entry at all,
\* check_for_all_chunk_dirs ends the run through its diagnostic exit, not
\* through an unhandled error, and check_dirs_for_data never proceeds to
\* check files.
C28_EmptyBaseDirExits ==
    (baseDir = {} /\ pc \notin {"resolve", "probe"}) =>
        /\ pc = "exit"
        /\ exit_msg # ""
        /\ complete_chunk_dirs = <<>>
        /\ dir_of_unique_filenames = <<>>
        /\ all_files = <<>>


\* The report of another run over the same tree: the one in which every set
\* of patterns is listed in the first of the orders.
ReportOfOtherRun ==
    LET listed == [d \in SeqRange(complete_chunk_dirs) |->
                      ListOfSet(unique_filename_dates(d), OrderNames[1])]
    IN  [d \in SeqRange(complete_chunk_dirs) |-> check_for_all_files(d, listed).value]

\* C29: check_dirs_for_data is deterministic: two runs over the same
\* unchanged tree return the same report, with the same years in the same
\* order for every chunk directory, and so the same sequence of
\* post-processing invocations, whatever the order in which the directory
\* listings and the set of discovered patterns are enumerated.
C29_SameReportEveryRun ==
    (pc = "plots") =>
        /\ all_files = ReportOfOtherRun
        /\ invoked = [i \in 1..Len(invoked) |->
                         ArgumentsOf(FlattenReport(ReportOfOtherRun,
                                                   complete_chunk_dirs)[i])]


\* C30: after write.cmd.py has run, the command file contains exactly one
\* line for each (variable of varlist, year in start_year..end_year) pair
\* and nothing else, whether or not a command file existed before the run;
\* running the script twice leaves the same content as running it once.
C30_CommandFileOneLinePerPair ==
    (probe.fn = "write.cmd.py" /\ Len(probe.after) >= 1) =>
        LET pairs == SeqRange(varlist) \X (probe.start_year..probe.end_year)
            lines == probe.file.lines
        IN  /\ Len(lines) = Cardinality(pairs)
            /\ \A p \in pairs :
                  Cardinality({i \in 1..Len(lines) :
                                  lines[i] = cmd2(probe.cwd, p[2], p[1])}) = 1
            /\ \A c \in 1..Len(probe.after) : probe.after[c].lines = probe.after[1].lines

====
